---- MODULE Spec2Model ----
(***************************************************************************)
(* Model of the HTTP firmware updater of lora_trap_monitor                 *)
(* (src/lora_trap_monitor/src/httpota.cpp, main.cpp).                      *)
(*                                                                         *)
(* HttpOta registers four routes on a WebServer.  POST /update has two     *)
(* callbacks: handleUpdateUpload, called once per upload chunk event       *)
(* (UPLOAD_FILE_START / WRITE / END / ABORTED), and handleUpdateDone,      *)
(* called when the request has been read completely.  Both drive the       *)
(* platform object Update (the Flash Staging Sink of the specification).   *)
(*                                                                         *)
(* The Update object and the WebServer are platform libraries; their       *)
(* sources are not part of the repository.  The Sink is modelled by its    *)
(* contract (open / write / seal / discard plus the error state that       *)
(* hasError() reads), every outcome the contract leaves to the platform    *)
(* being a nondeterministic choice of the action that calls it.            *)
(*                                                                         *)
(* loop() also calls heartbeat(), whose two static counters share nothing  *)
(* with the updater; heartbeat is therefore followed in a specification of *)
(* its own (HeartbeatSpec), and its counters stay as they are in the       *)
(* specifications of the updater.                                          *)
(***************************************************************************)
EXTENDS Integers, Sequences, FiniteSets, TLC

\* ------------------------------------------------------------------ bounds
\* Longest chunk (upload.currentSize) the router delivers, in bytes.
MaxLen == 2
\* Most UPLOAD_FILE_WRITE events delivered for one upload.
MaxChunks == 2
\* Most calls of heartbeat() followed after boot.
MaxCalls == 1200

VARIABLES
    written,     \* static size_t written            (httpota.cpp:71)
    update,      \* state of the Update object: [running, error]
    bootable,    \* the staged image is marked as the one to boot next
    status,      \* the session's status, as the handler's branches decide it
    offered,     \* bytes offered by the WRITE events of the current session
    accepted,    \* sum of the counts Update.write returned in the session
    route,       \* method and path of the request served last
    phase,       \* where the router is: "idle", "upload", "ended"
    auth,        \* the request being served carries valid credentials
    chunks,      \* WRITE events delivered for the current upload
    log,         \* what the handlers did for the request served last: calls
                 \* of Update, Serial output, responses, in program order
    restarted,   \* ESP.restart() was called; the device is going down
    prev,        \* status and written as the latest START event found them
    count,       \* static int count                 (main.cpp:57)
    nextChange,  \* static int nextChange            (main.cpp:58)
    calls,       \* calls of heartbeat() since boot
    dot          \* the latest call of heartbeat() printed a dot

vars == <<written, update, bootable, status, offered, accepted,
          route, phase, auth, chunks, log, restarted, prev,
          count, nextChange, calls, dot>>

\* The state of heartbeat().
hb == <<count, nextChange, calls, dot>>

\* The initial values of nextChange and the values heartbeat() gives it.
NextChangeInit == 200
NextChangeTest == 500
NextChangeThen == 20
NextChangeElse == 200

Statuses == {"Idle", "InProgress", "Completed", "Failed", "Aborted"}

\* --------------------------------------------------- Flash Staging Sink
\* Each operation maps the Sink state (and the outcome the platform picks)
\* to the value returned to the caller and the Sink state afterwards.

\* Update.begin(): reserve a region.  ok: the platform can allocate one.
\* A new region clears the error state; a failed allocation records it.
\* While a region is open a second begin is refused and changes nothing.
UpdateBegin(u, ok) ==
    IF u.running THEN [ret |-> FALSE, u |-> u]
    ELSE IF ok THEN [ret |-> TRUE, u |-> [running |-> TRUE, error |-> FALSE]]
    ELSE [ret |-> FALSE, u |-> [running |-> FALSE, error |-> TRUE]]

\* The counts Update.write may return for a chunk of len bytes: anything up
\* to len while a region is open, nothing otherwise.
WriteCounts(u, len) == IF u.running THEN 0..len ELSE {0}

\* Update.write(buf, len) returning w.  A short write may leave the region
\* open (the contract only reports the count) or make the Sink give it up
\* and record the error (latch).
UpdateWrite(u, len, w, latch) ==
    IF u.running /\ w < len /\ latch
    THEN [ret |-> w, u |-> [running |-> FALSE, error |-> TRUE]]
    ELSE [ret |-> w, u |-> u]

\* Update.end(true): seal.  Without an open region it fails and changes
\* nothing; otherwise the region is closed and either the image is marked
\* bootable (ok) or the validation error is recorded.
UpdateEndSeal(u, b, ok) ==
    IF ~u.running THEN [ret |-> FALSE, u |-> u, bootable |-> b]
    ELSE IF ok THEN [ret |-> TRUE, u |-> [running |-> FALSE, error |-> u.error],
                     bootable |-> TRUE]
    ELSE [ret |-> FALSE, u |-> [running |-> FALSE, error |-> TRUE], bootable |-> b]

\* Update.end(): discard.  An open region is released unsealed and the
\* premature end is recorded; no boot-time change is made.
UpdateEndDiscard(u, b) ==
    IF ~u.running THEN [ret |-> FALSE, u |-> u, bootable |-> b]
    ELSE [ret |-> FALSE, u |-> [running |-> FALSE, error |-> TRUE], bootable |-> b]

\* Update.hasError()
HasError(u) == u.error

\* ------------------------------------------------------------- HttpOta

\* A checkAuth that lets every request through.
CheckAuthBypass(a) == TRUE

\* checkAuth(): server.authenticate(UPDATE_USER, UPDATE_PASS); a is whether
\* the request's credentials match.
CheckAuth(a) == a

\* What checkAuth() sends when it fails.
AuthEffects(a) == IF CheckAuth(a) THEN << >> ELSE <<"requestAuthentication">>

Init ==
    /\ written = 0
    /\ update = [running |-> FALSE, error |-> FALSE]
    /\ bootable = FALSE
    /\ status = "Idle"
    /\ offered = 0
    /\ accepted = 0
    /\ route = "none"
    /\ phase = "idle"
    /\ auth = FALSE
    /\ chunks = 0
    /\ log = << >>
    /\ restarted = FALSE
    /\ prev = [status |-> "Idle", written |-> 0]
    /\ count = 0
    /\ nextChange = NextChangeInit
    /\ calls = 0
    /\ dot = FALSE

\* The program variables the POST /update handlers may change.
prog == <<written, update, bootable, status, offered, accepted, restarted, prev>>

\* A START that forgets to reset the counter.
StartWrittenKept(wr) == wr

\* written = 0 at UPLOAD_FILE_START.
StartWritten(wr) == 0

\* written = w instead of written += w.
AddWrittenAssign(wr, w, len) == w

\* written += upload.currentSize instead of written += w.
AddWrittenOffered(wr, w, len) == wr + len

\* written += w at UPLOAD_FILE_WRITE.  written is a size_t; it is set to 0
\* at every START and a session's counts sum to at most the size of the
\* region, so the addition never wraps.
\* w: the count Update.write returned; len: upload.currentSize.
AddWritten(wr, w, len) == wr + w

\* The evenIfRemaining argument of Update.end at UPLOAD_FILE_END and at
\* UPLOAD_FILE_ABORTED: end(true) seals, end() discards.
EndArg == TRUE
\* An abort path that calls Update.end(true) like the end path.
AbortArgSeals == TRUE
AbortArg == FALSE

\* Update.end(evenIfRemaining)
UpdateEnd(u, b, evenIfRemaining, ok) ==
    IF evenIfRemaining THEN UpdateEndSeal(u, b, ok) ELSE UpdateEndDiscard(u, b)

\* The name under which a call of Update.end shows in the log.
EndCall(evenIfRemaining) == IF evenIfRemaining THEN "Update.end(true)" ELSE "Update.end()"

\* An ABORTED branch that does not call Update.end() at all.
AbortCallMissing(u, b, ok) == [ret |-> FALSE, u |-> u, bootable |-> b]

\* The call of the Sink in the ABORTED branch.
AbortCall(u, b, ok) == UpdateEnd(u, b, AbortArg, ok)

\* An ABORTED branch that also answers the caller.
AbortTraceReply == <<EndCall(AbortArg), "Aborted", "send:Update FAILED">>

\* What the ABORTED branch does, in program order.
AbortTrace == <<EndCall(AbortArg), "Aborted">>

\* handleUpdateUpload() for one chunk event.  a: the credentials are valid;
\* base: the effects of the request so far; st: upload.status; len:
\* upload.currentSize; ok, w, latch: the outcomes the Sink picks.
HandleUpdateUpload(a, base, st, len, ok, w, latch) ==
    IF ~CheckAuth(a)
    THEN /\ log' = base \o AuthEffects(a)
         /\ UNCHANGED prog
    ELSE
      CASE st = "UPLOAD_FILE_START" ->
             LET r == UpdateBegin(update, ok) IN
             /\ written' = StartWritten(written)
             /\ update' = r.u
             /\ status' = IF r.ret THEN "InProgress" ELSE "Failed"
             /\ offered' = 0
             /\ accepted' = 0
             /\ prev' = [status |-> status, written |-> written]
             /\ log' = base \o <<"Update.begin">>
                          \o (IF r.ret THEN << >> ELSE <<"printError">>)
             /\ UNCHANGED <<bootable, restarted>>
        [] st = "UPLOAD_FILE_WRITE" ->
             LET r == UpdateWrite(update, len, w, latch) IN
             /\ written' = AddWritten(written, r.ret, len)
             /\ update' = r.u
             /\ offered' = offered + len
             /\ accepted' = accepted + r.ret
             /\ log' = base \o <<"Update.write">>
                          \o (IF r.ret # len THEN <<"Write mismatch">> ELSE << >>)
             /\ UNCHANGED <<bootable, status, restarted, prev>>
        [] st = "UPLOAD_FILE_END" ->
             LET r == UpdateEnd(update, bootable, EndArg, ok) IN
             /\ update' = r.u
             /\ bootable' = r.bootable
             /\ status' = IF r.ret THEN "Completed" ELSE "Failed"
             /\ log' = base \o <<EndCall(EndArg)>>
                          \o (IF r.ret THEN <<"Success">> ELSE <<"printError">>)
             /\ UNCHANGED <<written, offered, accepted, restarted, prev>>
        [] st = "UPLOAD_FILE_ABORTED" ->
             LET r == AbortCall(update, bootable, ok) IN
             /\ update' = r.u
             /\ bootable' = r.bootable
             /\ status' = "Aborted"
             /\ log' = base \o AbortTrace
             /\ UNCHANGED <<written, offered, accepted, restarted, prev>>

\* A completion handler that restarts before it responds.
DoneEffectsRestartFirst(err) ==
    IF err THEN <<"send:Update FAILED">>
    ELSE <<"ESP.restart", "send:Update OK. Rebooting...", "delay">>

\* A completion handler with the test of hasError() inverted.
DoneEffectsInverted(err) ==
    IF ~err THEN <<"send:Update FAILED">>
    ELSE <<"send:Update OK. Rebooting...", "delay", "ESP.restart">>

\* A completion handler that answers nothing when the update failed.
DoneEffectsSilent(err) ==
    IF err THEN << >>
    ELSE <<"send:Update OK. Rebooting...", "delay", "ESP.restart">>

\* What handleUpdateDone() does once authenticated, in program order.
DoneEffects(err) ==
    IF err THEN <<"send:Update FAILED">>
    ELSE <<"send:Update OK. Rebooting...", "delay", "ESP.restart">>

\* handleUpdateDone()
HandleUpdateDone(a, base) ==
    IF ~CheckAuth(a)
    THEN /\ log' = base \o AuthEffects(a)
         /\ UNCHANGED prog
    ELSE LET eff == DoneEffects(HasError(update)) IN
         /\ log' = base \o eff
         /\ restarted' = (\E i \in 1..Len(eff) : eff[i] = "ESP.restart")
         /\ UNCHANGED <<written, update, bootable, status, offered, accepted, prev>>

\* ------------------------------------------------- the router's events
\* The WebServer serves one request at a time: a GET is handled in one
\* call; a POST with a file part delivers START, then WRITE events, then
\* END or ABORTED, and after END calls the completion handler.

\* handleRoot(): GET /, no authentication.
HandleRoot ==
    /\ phase = "idle" /\ ~restarted
    /\ log' = <<"send200root">>
    /\ route' = "GET /"
    /\ UNCHANGED <<prog, phase, auth, chunks, hb>>

\* handleUpdatePage(): GET /update.
HandleUpdatePage ==
    /\ phase = "idle" /\ ~restarted
    /\ \E a \in BOOLEAN :
         /\ log' = IF CheckAuth(a) THEN <<"send200form">> ELSE AuthEffects(a)
         /\ auth' = a
    /\ route' = "GET /update"
    /\ UNCHANGED <<prog, phase, chunks, hb>>

\* server.onNotFound: any other path.
NotFound ==
    /\ phase = "idle" /\ ~restarted
    /\ log' = <<"send404">>
    /\ route' = "other"
    /\ UNCHANGED <<prog, phase, auth, chunks, hb>>

\* A POST /update with a file part arrives: UPLOAD_FILE_START.
UploadStart ==
    /\ phase = "idle" /\ ~restarted
    /\ \E a \in BOOLEAN, ok \in BOOLEAN :
         /\ HandleUpdateUpload(a, << >>, "UPLOAD_FILE_START", 0, ok, 0, FALSE)
         /\ auth' = a
    /\ route' = "POST /update"
    /\ phase' = "upload"
    /\ chunks' = 0
    /\ UNCHANGED hb

\* The next chunk of the file: UPLOAD_FILE_WRITE.
UploadWrite ==
    /\ phase = "upload" /\ ~restarted
    /\ chunks < MaxChunks
    /\ \E len \in 1..MaxLen, latch \in BOOLEAN :
         \E w \in WriteCounts(update, len) :
           HandleUpdateUpload(auth, log, "UPLOAD_FILE_WRITE", len, TRUE, w, latch)
    /\ chunks' = chunks + 1
    /\ UNCHANGED <<route, phase, auth, hb>>

\* The file part is complete: UPLOAD_FILE_END.
UploadEnd ==
    /\ phase = "upload" /\ ~restarted
    /\ \E ok \in BOOLEAN :
         HandleUpdateUpload(auth, log, "UPLOAD_FILE_END", 0, ok, 0, FALSE)
    /\ phase' = "ended"
    /\ UNCHANGED <<route, auth, chunks, hb>>

\* The connection broke during the upload: UPLOAD_FILE_ABORTED.  The
\* request ends here; the completion handler is not called.
UploadAborted ==
    /\ phase = "upload" /\ ~restarted
    /\ \E ok \in BOOLEAN :
         HandleUpdateUpload(auth, log, "UPLOAD_FILE_ABORTED", 0, ok, 0, FALSE)
    /\ phase' = "idle"
    /\ UNCHANGED <<route, auth, chunks, hb>>

\* The request has been read: the completion handler runs.
UploadDone ==
    /\ phase = "ended" /\ ~restarted
    /\ HandleUpdateDone(auth, log)
    /\ phase' = "idle"
    /\ UNCHANGED <<route, auth, chunks, hb>>

\* A POST /update without a file part: no chunk event is delivered, the
\* completion handler runs at once.
PostNoFile ==
    /\ phase = "idle" /\ ~restarted
    /\ \E a \in BOOLEAN :
         /\ HandleUpdateDone(a, << >>)
         /\ auth' = a
    /\ route' = "POST /update"
    /\ UNCHANGED <<phase, chunks, hb>>

\* The device starts again, after ESP.restart() or a power cycle: static
\* and Update state are initialised anew, and what was staged and marked
\* bootable is now the running image, so the staging region is fresh.
Boot ==
    /\ written' = 0
    /\ update' = [running |-> FALSE, error |-> FALSE]
    /\ bootable' = FALSE
    /\ status' = "Idle"
    /\ offered' = 0 /\ accepted' = 0
    /\ route' = "none" /\ phase' = "idle" /\ auth' = FALSE /\ chunks' = 0
    /\ log' = << >>
    /\ restarted' = FALSE
    /\ prev' = [status |-> "Idle", written |-> 0]
    /\ count' = 0 /\ nextChange' = NextChangeInit
    /\ calls' = 0 /\ dot' = FALSE

Next ==
    \/ HandleRoot
    \/ HandleUpdatePage
    \/ NotFound
    \/ UploadStart
    \/ UploadWrite
    \/ UploadEnd
    \/ UploadAborted
    \/ UploadDone
    \/ PostNoFile
    \/ Boot

Spec == Init /\ [][Next]_vars

\* The device comes up again after ESP.restart().
Reboot == restarted /\ Boot

\* The control loop while the power stays on: the device starts again only
\* after ESP.restart().
NextPowered ==
    \/ HandleRoot
    \/ HandleUpdatePage
    \/ NotFound
    \/ UploadStart
    \/ UploadWrite
    \/ UploadEnd
    \/ UploadAborted
    \/ UploadDone
    \/ PostNoFile
    \/ Reboot

\* loop() runs for ever and handleClient() calls the completion handler of
\* a request that has been read; a restarted device comes up again.
FairSpec ==
    Init /\ [][NextPowered]_vars /\ WF_vars(UploadDone) /\ WF_vars(Reboot)

\* heartbeat(), called once per iteration of loop().
Heartbeat ==
    /\ calls < MaxCalls
    /\ calls' = calls + 1
    /\ IF (count + 1) % nextChange = 0
       THEN /\ dot' = TRUE
            /\ nextChange' = IF nextChange = NextChangeTest
                              THEN NextChangeThen ELSE NextChangeElse
            /\ count' = 0
       ELSE /\ dot' = FALSE
            /\ count' = count + 1
            /\ UNCHANGED nextChange
    /\ UNCHANGED <<prog, route, phase, auth, chunks, log>>

HeartbeatSpec == Init /\ [][Heartbeat]_vars

\* ---------------------------------------------------------- properties

\* The effect e is in the log of the request served last.
Has(e) == \E i \in 1..Len(log) : log[i] = e

\* The last effect in a log.
LastOf(l) == IF Len(l) = 0 THEN "" ELSE l[Len(l)]

\* How often e is in the log.
Count(e) == Cardinality({i \in 1..Len(log) : log[i] = e})

TypeOK ==
    /\ written \in 0..(MaxLen * MaxChunks)
    /\ update \in [running : BOOLEAN, error : BOOLEAN]
    /\ bootable \in BOOLEAN
    /\ status \in Statuses
    /\ offered \in 0..(MaxLen * MaxChunks)
    /\ accepted \in 0..(MaxLen * MaxChunks)
    /\ route \in {"none", "GET /", "GET /update", "POST /update", "other"}
    /\ phase \in {"idle", "upload", "ended"}
    /\ auth \in BOOLEAN
    /\ chunks \in 0..MaxChunks
    /\ restarted \in BOOLEAN
    /\ prev \in [status : Statuses, written : 0..(MaxLen * MaxChunks)]

\* An authenticated upload is being served or was served last.
AuthUpload == route = "POST /update" /\ auth /\ Has("Update.begin")

\* C1: the staged image is marked bootable only if the current session
\* received onEnd and the seal of that onEnd succeeded (the session is
\* Completed and the handler called Update.end(true) and reported success);
\* a session is Completed only if its seal succeeded, that is, only if the
\* image is marked bootable.
C1_BootableOnlyAfterSeal ==
    /\ bootable => /\ status = "Completed"
                   /\ AuthUpload
                   /\ Has("Update.end(true)") /\ Has("Success")
                   /\ ~Has("Update.end()")
    /\ status = "Completed" => bootable

\* C1 witness: a session of two chunks was sealed and is bootable.
C1_Witness ==
    bootable /\ status = "Completed" /\ chunks = MaxChunks /\ phase = "ended"

\* C2 (the claim as stated): the device restarts, and the success message
\* is sent, only when a session of that request reached Completed.
C2_RestartOnlyAfterCompleted ==
    (restarted \/ Has("send:Update OK. Rebooting...")) => status = "Completed"

\* C3: respond, then restart: every restart in the log comes after the
\* success response of the same handler invocation, no failure response is
\* in the log with it, and the device goes down only by that restart.
C3_RespondThenRestart ==
    /\ \A i \in 1..Len(log) :
         log[i] = "ESP.restart" =>
           /\ \E j \in 1..(i - 1) : log[j] = "send:Update OK. Rebooting..."
           /\ ~Has("send:Update FAILED")
    /\ restarted <=> Has("ESP.restart")
    /\ Has("send:Update FAILED") => ~restarted

\* C3 witness: the device restarted after an upload that ended.
C3_Witness ==
    restarted /\ Has("Update.end(true)") /\ LastOf(log) = "ESP.restart"

\* C4: a handler of /update (GET or POST, every chunk event and the
\* completion) that runs for a request without valid credentials calls
\* nothing of the Sink, leaves written, the Sink, the boot mark and the
\* session as they are, does not restart, and answers with the challenge.
C4_NoCredentialsNoEffect ==
    [][ (route' \in {"GET /update", "POST /update"} /\ ~auth')
          => /\ UNCHANGED prog
             /\ LastOf(log') = "requestAuthentication"
             /\ \A i \in 1..Len(log') : log'[i] = "requestAuthentication" ]_vars

\* C4 witness: an upload without credentials, START and two chunks
\* delivered, after an earlier authenticated session left its counters.
C4_Witness ==
    /\ route = "POST /update" /\ ~auth /\ phase = "ended"
    /\ chunks = MaxChunks /\ Len(log) = chunks + 2
    /\ status = "Aborted" /\ written > 0

\* C5: through the WRITE events of an authenticated session and at its
\* END, written is the sum of the counts Update.write returned, and is at
\* most the number of bytes offered.
C5_WrittenIsSumOfCounts ==
    (AuthUpload /\ phase \in {"upload", "ended"})
        => written = accepted /\ written <= offered

\* C5 witness: at END of a session whose two writes were one short, one
\* complete.
C5_Witness ==
    /\ AuthUpload /\ phase = "ended" /\ chunks = MaxChunks
    /\ Count("Write mismatch") = 1
    /\ 0 < written /\ written < offered

\* C6: right after every authenticated START event written is 0, whether
\* the open succeeded or failed and whatever the session before left.
C6_StartResetsWritten ==
    [][ (phase = "idle" /\ phase' = "upload" /\ auth') => written' = 0 ]_vars

\* C6 witness: a START whose open failed has just been handled.
C6_Witness ==
    /\ AuthUpload /\ phase = "upload" /\ chunks = 0
    /\ status = "Failed" /\ written = 0

\* C7: an ABORTED event of an authenticated upload calls Update.end()
\* (discard, not Update.end(true)), leaves the session Aborted and makes
\* no bootable change.
C7_AbortDiscards ==
    [][ (phase = "upload" /\ phase' = "idle" /\ route' = "POST /update" /\ auth)
          => /\ log' = log \o <<"Update.end()", "Aborted">>
             /\ status' = "Aborted"
             /\ ~update'.running
             /\ bootable' = bootable /\ ~bootable' ]_vars

\* C7 witness: a session aborted after a short write.
C7_Witness ==
    /\ AuthUpload /\ status = "Aborted" /\ LastOf(log) = "Aborted"
    /\ Has("Write mismatch") /\ 0 < written /\ written < offered

\* C8 (the claim as stated): whenever the image is marked bootable, every
\* byte offered by the session's WRITE events was accepted.
C8_NoPartialImageBootable ==
    bootable => written = offered /\ ~Has("Write mismatch")

\* The open of the upload served last failed at START.
OpenFailed ==
    AuthUpload /\ Len(log) >= 2 /\ log[1] = "Update.begin" /\ log[2] = "printError"

\* C9: if the open fails at START then, whatever WRITE events follow, the
\* END fails (no success, the image is not marked bootable), the completion
\* response is the failure message and the device does not restart.
C9_FailedOpenFailsUpload ==
    OpenFailed =>
        /\ ~bootable /\ ~restarted
        /\ ~Has("Success") /\ ~Has("send:Update OK. Rebooting...")
        /\ written = 0
        /\ (phase = "ended" => LastOf(log) = "printError" /\ status = "Failed")
        /\ (phase = "idle" /\ Has("Update.end(true)")
              => LastOf(log) = "send:Update FAILED")

\* C9 witness: open failed, two chunks, END, and the completion replied.
C9_Witness ==
    /\ OpenFailed /\ chunks = MaxChunks /\ phase = "idle"
    /\ LastOf(log) = "send:Update FAILED"

\* C10: a WRITE event whose write returns less than the chunk length calls
\* neither Update.end() nor Update.end(true), leaves the session status and
\* the boot mark as they are, and adds exactly the returned count to
\* written; every WRITE event and the END are forwarded to the Sink, also
\* after a short write.
C10_LenientPartialWrite ==
    /\ [][ (phase = "upload" /\ phase' = "upload" /\ auth
             /\ accepted' - accepted < offered' - offered)
              => /\ log' = log \o <<"Update.write", "Write mismatch">>
                 /\ status' = status /\ bootable' = bootable
                 /\ written' - written = accepted' - accepted ]_vars
    /\ [](AuthUpload /\ phase \in {"upload", "ended"}
            => /\ Count("Update.write") = chunks
               /\ (phase = "ended" => Has("Update.end(true)")))

\* C10 witness: a first chunk fully written, a second one short with the
\* region kept, and the END forwarded and sealed.
C10_Witness ==
    /\ AuthUpload /\ phase = "ended" /\ chunks = MaxChunks
    /\ log[2] = "Update.write" /\ log[3] = "Update.write"
    /\ log[4] = "Write mismatch" /\ log[5] = "Update.end(true)"
    /\ written = MaxLen + 1 /\ status = "Completed"

\* ------------------------------------------- the steps of an upload
\* Steps in which a handler ran for an authenticated POST /update; the
\* start of the device is the only step that sets route to "none".
BootStep == route' = "none"
StartStep == phase = "idle" /\ phase' = "upload" /\ auth'
WriteStep == phase = "upload" /\ phase' = "upload" /\ chunks' = chunks + 1 /\ auth
EndStep == phase = "upload" /\ phase' = "ended" /\ auth
AbortStep == phase = "upload" /\ phase' = "idle" /\ route' = "POST /update" /\ auth
DoneStep == phase = "ended" /\ phase' = "idle" /\ route' = "POST /update" /\ auth

\* C11: at most one session is InProgress and at most one region is open:
\* a region is open only during the one upload being served, whose session
\* is InProgress; when a START event arrives no region is open and no
\* session is InProgress, so it neither opens a second region nor resets
\* written under a running session.
C11_OneSessionOneRegion ==
    /\ [][StartStep => ~update.running /\ status # "InProgress"]_vars
    /\ [](update.running => /\ status = "InProgress" /\ phase = "upload"
                            /\ auth /\ route = "POST /update")
    /\ [](phase = "idle" => ~update.running /\ status # "InProgress")

\* C11 witness: a region opened by the START that follows a session
\* aborted after bytes had been written.
C11_Witness ==
    /\ update.running /\ phase = "upload" /\ chunks = 0 /\ written = 0
    /\ prev.status = "Aborted" /\ prev.written > 0

\* C12 (the claim as stated): the status changes only along Idle ->
\* InProgress (START, open succeeded), InProgress -> Completed (END, seal
\* succeeded), InProgress -> Failed (END, seal failed), InProgress ->
\* Aborted (ABORTED) and Completed/Failed/Aborted -> InProgress (START).
C12_OnlyListedTransitions ==
    [][ (status' # status /\ ~BootStep) =>
          \/ /\ status = "Idle" /\ status' = "InProgress"
             /\ StartStep /\ update'.running
          \/ /\ status = "InProgress" /\ status' = "Completed"
             /\ EndStep /\ bootable'
          \/ /\ status = "InProgress" /\ status' = "Failed"
             /\ EndStep /\ ~bootable'
          \/ /\ status = "InProgress" /\ status' = "Aborted"
             /\ AbortStep
          \/ /\ status \in {"Completed", "Failed", "Aborted"}
             /\ status' = "InProgress" /\ StartStep ]_vars

\* C12 (amended): besides the transitions of the claim, a START whose open
\* fails takes the session to Failed from any status, and an ABORTED event
\* after such a START takes it from Failed to Aborted.  Completed is
\* entered only with the success report and the boot mark, Aborted only
\* with the boot mark untouched.
C12_TransitionsWithFailedOpen ==
    [][ (status' # status /\ ~BootStep) =>
          \/ /\ status' = "InProgress"
             /\ StartStep /\ update'.running
          \/ /\ status' = "Failed"
             /\ StartStep /\ ~update'.running /\ LastOf(log') = "printError"
          \/ /\ status = "InProgress" /\ status' = "Completed"
             /\ EndStep /\ bootable' /\ LastOf(log') = "Success"
          \/ /\ status = "InProgress" /\ status' = "Failed"
             /\ EndStep /\ ~bootable' /\ LastOf(log') = "printError"
          \/ /\ status \in {"InProgress", "Failed"} /\ status' = "Aborted"
             /\ AbortStep /\ bootable' = bootable ]_vars

\* C12 witness: a session aborted after its open had failed.
C12_Witness ==
    /\ status = "Aborted" /\ OpenFailed /\ LastOf(log) = "Aborted"

\* C13 (the claim as stated): written changes only at a WRITE event, where
\* it grows and the session is InProgress, and at a START event, where it
\* becomes 0 exactly when the session goes to InProgress.
C13_WrittenResetOnlyInProgress ==
    [][ ~BootStep =>
          /\ (written' # written =>
                \/ WriteStep /\ written' > written /\ status = "InProgress"
                \/ StartStep /\ written' = 0 /\ status' = "InProgress")
          /\ (StartStep /\ status' = "InProgress" => written' = 0) ]_vars

\* C13 (amended): written changes only at a WRITE event, where it grows
\* and the session is InProgress with its region open, and at a START
\* event, which sets it to 0 whether the open succeeds (InProgress) or
\* fails (Failed); END, ABORTED, the completion handler and the other
\* routes leave it as it is.
C13_WrittenFrame ==
    [][ ~BootStep =>
          /\ (written' # written =>
                \/ /\ WriteStep /\ written' > written
                   /\ status = "InProgress" /\ update.running
                \/ /\ StartStep /\ written' = 0
                   /\ status' \in {"InProgress", "Failed"})
          /\ (StartStep => written' = 0) ]_vars

\* C13 witness: a START whose open failed has reset the count that the
\* session before had left.
C13_Witness ==
    /\ phase = "upload" /\ auth /\ chunks = 0 /\ status = "Failed"
    /\ prev.written > 0 /\ written = 0

\* What a handler sends to the caller: a response or the challenge.
Responses ==
    {"send200root", "send200form", "send404", "requestAuthentication",
     "send:Update OK. Rebooting...", "send:Update FAILED"}

\* How many responses the request served last was sent.
ResponseCount == Cardinality({i \in 1..Len(log) : log[i] \in Responses})

\* C14: a session that ended Failed or Aborted does not poison the next
\* one: an authenticated upload after it whose open succeeds, whose writes
\* are all complete and whose seal succeeds is Completed and bootable, and
\* its completion sends the success response and restarts; the completion
\* of an upload reports success exactly when the END of that upload
\* reported success.
C14_NoPoisoning ==
    /\ (/\ AuthUpload /\ prev.status \in {"Failed", "Aborted"}
        /\ ~OpenFailed /\ ~Has("Write mismatch") /\ Has("Success"))
         => /\ status = "Completed" /\ bootable
            /\ (phase = "idle" =>
                  /\ restarted
                  /\ Has("send:Update OK. Rebooting...")
                  /\ ~Has("send:Update FAILED"))
    /\ (AuthUpload /\ phase = "idle" /\ Has("Update.end(true)"))
         => /\ Has("send:Update OK. Rebooting...") <=> Has("Success")
            /\ Has("send:Update FAILED") <=> ~Has("Success")

\* C14 witness: the upload after a Failed session that had written bytes
\* was completed, answered with success and restarted the device.
C14_Witness ==
    /\ AuthUpload /\ prev.status = "Failed" /\ prev.written > 0
    /\ chunks = MaxChunks /\ written = offered
    /\ Has("Success") /\ restarted

\* C15: while an authenticated upload is served by the chunk handler
\* (START, WRITE, END) and after it was ended by ABORTED, nothing has been
\* sent to the caller and the device has not restarted.
C15_ChunkHandlerSilent ==
    (AuthUpload /\ (phase \in {"upload", "ended"} \/ Has("Aborted")))
        => ResponseCount = 0 /\ ~restarted

\* C15 witness: START, then ABORTED, with no data.
C15_Witness ==
    /\ AuthUpload /\ phase = "idle" /\ chunks = 0
    /\ log = <<"Update.begin", "Update.end()", "Aborted">>
    /\ status = "Aborted"

\* C16: with the control loop scheduled fairly, an authenticated upload
\* that reached END is answered exactly once: with the success message,
\* followed by the restart, if the session is Completed, with the failure
\* message and no restart if it is Failed.
C16_EndPathReplies ==
    /\ (AuthUpload /\ phase = "ended" /\ status = "Completed")
         ~> (/\ restarted /\ ResponseCount = 1
             /\ Has("send:Update OK. Rebooting...")
             /\ LastOf(log) = "ESP.restart")
    /\ (AuthUpload /\ phase = "ended" /\ status = "Failed")
         ~> (/\ AuthUpload /\ phase = "idle" /\ ~restarted
             /\ ResponseCount = 1 /\ LastOf(log) = "send:Update FAILED")

\* C16 witness: the completion of an upload whose seal failed has replied.
C16_Witness ==
    /\ AuthUpload /\ phase = "idle" /\ ~OpenFailed
    /\ Has("Update.end(true)") /\ LastOf(log) = "send:Update FAILED"

\* C17 (the claim as stated): a WRITE, END or ABORTED event that finds the
\* session Idle, Completed, Failed or Aborted leaves status, written, the
\* Sink and the boot mark as they are, and a completion that finds the
\* session not Completed reports failure and does not restart.
C17_OutsideSessionNoOps ==
    /\ [][ ((WriteStep \/ EndStep \/ AbortStep) /\ status # "InProgress")
            => /\ status' = status /\ written' = written
               /\ update' = update /\ bootable' = bootable ]_vars
    /\ [][ (DoneStep /\ status # "Completed")
            => ~restarted' /\ LastOf(log') = "send:Update FAILED" ]_vars

\* C17 (amended): such an event leaves written, the Sink (its region and
\* its error state) and the boot mark as they are; WRITE and END leave the
\* status as it is, ABORTED sets it to Aborted; a completion that finds
\* the session not Completed reports failure and does not restart.
C17_OutsideSessionFrame ==
    /\ [][ ((WriteStep \/ EndStep \/ AbortStep) /\ status # "InProgress")
            => /\ status' = (IF AbortStep THEN "Aborted" ELSE status)
               /\ written' = written
               /\ update' = update /\ bootable' = bootable ]_vars
    /\ [][ (DoneStep /\ status # "Completed")
            => ~restarted' /\ LastOf(log') = "send:Update FAILED" ]_vars

\* C17 witness: after a failed open, two WRITE events and the ABORTED
\* event were delivered to a session that was Failed.
C17_Witness ==
    /\ OpenFailed /\ chunks = MaxChunks /\ Count("Update.write") = MaxChunks
    /\ status = "Aborted" /\ written = 0 /\ offered > 0

\* C18 (the claim as stated): the handlers send at most one response or
\* challenge for a request.
C18_AtMostOneResponse == ResponseCount <= 1

\* C19 (the claim as stated): counting the calls of heartbeat() from boot,
\* a dot is printed exactly on the calls whose index is a multiple of 500,
\* and the counter stays within 0..499.
C19_DotEvery500th ==
    /\ calls > 0 => (dot <=> calls % 500 = 0)
    /\ count \in 0..499
====
